---- MODULE Spec2Model ----
(***************************************************************************)
(* Payment-driven state-transition pipeline of the owlpole backend:        *)
(* initiateOnboarding / initiateCreditPurchase stage records in PENDING,   *)
(* handlePaymentWebhook (Razorpay webhook) drives Billing,                 *)
(* OnboardingSession, Twin and User.  Every `await` of a handler is one    *)
(* step, so that concurrent deliveries interleave at the database calls.   *)
(***************************************************************************)
EXTENDS Integers, Sequences, FiniteSets, TLC

VARIABLES
    billing,     \* Billing collection, in insertion order
    sessions,    \* OnboardingSession collection, keyed by its unique razorpayOrderId
    twins,       \* Twin collection, in insertion order
    users,       \* User collection
    issued,      \* number of orders the payment provider has created
    hs,          \* per handler slot: the request being processed, position and locals
    out,         \* the HTTP response the last step sent, if it sent one
    delivered,   \* number of webhook deliveries received
    completions, \* history: times billingRecord.save() stored COMPLETED, per record
    grants,      \* history: times user.save() stored an increased balance, per record
    expiry,      \* the plan expiry calculation: plan type, clock reading, result
    receipts,    \* two order creations of the order service and their receipt strings
    clock,       \* minutes elapsed on the server's clock
    admin,       \* the activateTwin request being processed: position and locals
    synth        \* one onboarding followed from the submitted form to the Twin

vars == <<billing, sessions, twins, users, issued, hs, out, delivered, completions, grants,
          expiry, receipts, clock, admin, synth>>

\* the collections, the provider's order count and the webhook deliveries
pipeline == <<billing, sessions, twins, users, issued, hs, out, delivered, completions, grants>>

\* what the steps of the payment pipeline leave alone
aside == <<expiry, receipts, clock, admin, synth>>

db == <<billing, sessions, twins, users>>

-----------------------------------------------------------------------------
(* Bounds of the model *)

MaxOrders == 2

MaxDeliveries == 2

MaxInFlight == 2

MaxApiTwins == 1

MaxActivations == 1

\* the clock stops advancing by itself after this many minutes
MaxClock == 60

-----------------------------------------------------------------------------
(* Domains *)

Users == {"u1", "u2"}

\* the users who place orders; the others are bystanders
Buyers == {"u1"}

\* slots for the deliveries being processed at the same time
Handlers == 1..MaxInFlight

OrderIds == 1..MaxOrders

PaymentIds == {"pay_A"}

\* events whose payload holds payload.payment.entity
PaymentEvents == {"payment.captured", "payment.failed", "payment.authorized"}

\* a settlement event holds payload.settlement only
Events == PaymentEvents \cup {"settlement.processed"}

\* an optional field: absent, or holding v
Undefined == {}

Some(v) == {v}

NoSession == [present |-> FALSE]

\* User schema: credits default 0, onboardingStatus default INITIAL
InitialCredits == 0

NewUser == [credits |-> InitialCredits, onboardingStatus |-> "INITIAL"]

\* variant: only the credit count of the request is compared
validPackages_CreditsOnly ==
    {<<20, 15>>, <<75, 45>>, <<200, 99>>} \cup {<<20, a>> : a \in {15, 45, 99}}

\* validPackages of initiateCreditPurchase
validPackages == {<<20, 15>>, <<75, 45>>, <<200, 99>>}

\* (credits, amount) pairs the modelled clients send
RequestedPackages == {<<20, 15>>, <<20, 45>>}

PlanTypes == {"MONTHLY", "YEARLY", "AFTERLIFE"}

RequestedPlans == {"MONTHLY", "WEEKLY"}

-----------------------------------------------------------------------------
(* Webhook authenticity *)

\* process.env.RAZORPAY_WEBHOOK_SECRET, and a key the provider does not hold
WebhookSecret == "whsec_live"

OtherSecret == "whsec_guess"

\* JSON.stringify(req.body): the text carries every field of the envelope
Serialize(body) ==
    <<"event", body.event, "payment", body.entity, "order_id", body.order, "id", body.pay>>

\* crypto.createHmac('sha256', key).update(msg).digest('hex'), collision-free
HmacSha256(key, msg) == <<"hmac-sha256", key, msg>>

NoHeader == <<>>

expectedSignature(body) == HmacSha256(WebhookSecret, Serialize(body))

\* req.body: entity tells whether payload.payment.entity is there
Bodies ==
    [event : PaymentEvents, entity : {TRUE}, order : OrderIds, pay : PaymentIds]
        \cup {[event |-> "settlement.processed", entity |-> FALSE, order |-> 0,
                pay |-> "none"]}

OtherOrder(o) == IF o = MaxOrders THEN 1 ELSE o + 1

\* what a sender can put in x-razorpay-signature: the provider's signature,
\* nothing, a signature under another key, or a genuine signature of another body
Signatures(body) ==
    { expectedSignature(body),
      NoHeader,
      HmacSha256(OtherSecret, Serialize(body)),
      expectedSignature([body EXCEPT !.order = OtherOrder(body.order)]) }

-----------------------------------------------------------------------------
(* Helpers *)

\* x || 0
OrZero(x) == IF x = Undefined THEN 0 ELSE CHOOSE v \in x : TRUE

IdleSlot == [pc |-> "idle", event |-> "none", entity |-> FALSE, order |-> 0, pay |-> "none",
             sig |-> NoHeader, bid |-> 0, sess |-> FALSE, ucred |-> Undefined]

NoResponse == [status |-> 0, event |-> "none", order |-> 0]

\* res.status(code).json(...) answering the request of slot h
Response(h, code) == [status |-> code, event |-> hs[h].event, order |-> hs[h].order]

BillingIds == 1..Len(billing)

\* the first record of a match set in insertion order, or 0 (findOne's null)
FirstOf(m) == IF m = {} THEN 0 ELSE CHOOSE b \in m : \A c \in m : b <= c

\* the record the filter {razorpayOrderId} selects, or 0
FindBillingByOrder(o) == FirstOf({b \in BillingIds : billing[b].orderId = o})

\* variant: the status condition is left out of the filter
FindPendingBilling_AnyStatus(o) == FindBillingByOrder(o)

\* Billing.findOne({razorpayOrderId, status: 'PENDING'}), or 0
FindPendingBilling(o) ==
    FirstOf({b \in BillingIds : billing[b].orderId = o /\ billing[b].status = "PENDING"})

NewBilling(u, o, kind, credits) ==
    [orderId |-> o, userId |-> u, kind |-> kind, credits |-> credits,
     status |-> "PENDING", paymentId |-> Undefined]

\* expiresAt default: Date.now() + 30 * 60 * 1000, in minutes
SessionTtl == 30

NewSession(u) == [present |-> TRUE, userId |-> u, status |-> "PENDING",
                  paymentId |-> Undefined, expiresAt |-> clock + SessionTtl]

-----------------------------------------------------------------------------
(* Dates: an instant is a day number since 1970-01-01 and the milliseconds   *)
(* elapsed in that day.  The server's local time is taken to be UTC.          *)

\* 30 * 24 * 60 * 60 * 1000 and 365 * 24 * 60 * 60 * 1000 milliseconds, in days
MonthlyDays == 30

YearlyDays == 365

\* now.getFullYear() + 100
AfterlifeYears == 100

NoInstant == [day |-> -1, ms |-> 0]

\* day number of the civil date y-m-d (m and d may overflow, as in new Date(y, m, d))
DaysFromCivil(y, m, d) ==
    LET yy  == IF m <= 2 THEN y - 1 ELSE y
        era == yy \div 400
        yoe == yy - era * 400
        mp  == IF m > 2 THEN m - 3 ELSE m + 9
        doy == (153 * mp + 2) \div 5 + d - 1
        doe == yoe * 365 + yoe \div 4 - yoe \div 100 + doy
    IN era * 146097 + doe - 719468

\* <<getFullYear(), getMonth() + 1, getDate()>> of a day number
CivilFromDays(z) ==
    LET zz  == z + 719468
        era == zz \div 146097
        doe == zz - era * 146097
        yoe == (doe - doe \div 1460 + doe \div 36524 - doe \div 146096) \div 365
        doy == doe - (365 * yoe + yoe \div 4 - yoe \div 100)
        mp  == (5 * doy + 2) \div 153
        d   == doy - (153 * mp + 2) \div 5 + 1
        m   == IF mp < 10 THEN mp + 3 ELSE mp - 9
        y   == yoe + era * 400
    IN <<IF m <= 2 THEN y + 1 ELSE y, m, d>>

\* new Date(t.getTime() + n * 24 * 60 * 60 * 1000): n days later, same time of day
AddDays(t, n) == [day |-> t.day + n, ms |-> t.ms]

\* new Date(y, m, d): local midnight of that date
LocalMidnight(y, m, d) == [day |-> DaysFromCivil(y, m, d), ms |-> 0]

\* variant: a yearly plan runs to the same date of the next calendar year
PlanExpiry_CalendarYear(planType, t) ==
    IF planType = "MONTHLY" THEN AddDays(t, MonthlyDays)
    ELSE IF planType = "YEARLY"
    THEN [day |-> DaysFromCivil(CivilFromDays(t.day)[1] + 1, CivilFromDays(t.day)[2],
                                CivilFromDays(t.day)[3]),
          ms |-> t.ms]
    ELSE LocalMidnight(CivilFromDays(t.day)[1] + AfterlifeYears,
                       CivilFromDays(t.day)[2], CivilFromDays(t.day)[3])

\* planExpiresAt of the PLAN_UPGRADE branch, from session.planType and now
PlanExpiry(planType, t) ==
    IF planType = "MONTHLY" THEN AddDays(t, MonthlyDays)
    ELSE IF planType = "YEARLY" THEN AddDays(t, YearlyDays)
    ELSE LocalMidnight(CivilFromDays(t.day)[1] + AfterlifeYears,
                       CivilFromDays(t.day)[2], CivilFromDays(t.day)[3])

\* clock readings of the model: the days from 2024-01-01 on, and 2000-02-29,
\* each at midnight and at 15:00
MaxDayOffset == 60

ClockDays == {DaysFromCivil(2024, 1, 1) + k : k \in 0..MaxDayOffset}
                 \cup {DaysFromCivil(2000, 2, 29)}

TimesOfDay == {0, 15 * 3600000}

Instants == [day : ClockDays, ms : TimesOfDay]

\* no calculation under way
NoCalculation == [plan |-> "none", now |-> NoInstant, planExpiresAt |-> NoInstant]

-----------------------------------------------------------------------------
(* Receipts of the order service.  Strings are sequences of characters; a     *)
(* Date.now() reading is the sequence of its 13 decimal digits.               *)

\* s.substring(from) with a 0-based index
Substring(s, from) == SubSeq(s, from + 1, Len(s))

\* ObjectId strings: 24 hexadecimal characters, here 16 leading and 8 trailing
IdHeads == {<<"6","5","a","1","b","2","c","3","d","4","e","5","f","6","0","7">>,
            <<"6","5","a","1","b","2","c","3","d","4","e","5","f","6","0","8">>}

IdTails == {<<"0","0","0","0","0","0","0","1">>, <<"0","0","0","0","0","0","0","2">>}

UserIdStrings == {h \o t : h \in IdHeads, t \in IdTails}

\* Date.now() readings: 3 leading and 10 trailing digits
ClockHeads == {<<"1","7","6">>, <<"1","7","7">>}

ClockTails == {<<"2","3","2","4","0","0","0","0","0","0">>,
               <<"2","3","2","4","0","0","0","0","0","1">>}

Timestamps == {h \o t : h \in ClockHeads, t \in ClockTails}

Purposes == {"onboard", "credits"}

Chars(purpose) ==
    IF purpose = "onboard" THEN <<"o","n","b","o","a","r","d">>
    ELSE <<"c","r","e","d","i","t","s">>

\* `onboard_${shortUserId}_${timestamp}` and `credits_${shortUserId}_${timestamp}`
Receipt(purpose, userId, timestamp) ==
    Chars(purpose) \o <<"_">> \o Substring(userId, Len(userId) - 8)
                   \o <<"_">> \o Substring(timestamp, 3)

NoReceipt == <<>>

OrderRequests == [userId : UserIdStrings, at : Timestamps]

\* no creation observed
NoReceipts == [purpose |-> "none", first |-> <<>>, second |-> <<>>,
               firstReceipt |-> NoReceipt, secondReceipt |-> NoReceipt]

-----------------------------------------------------------------------------
(* One onboarding from the submitted form to the Twin: what the session       *)
(* stores of the form and what the PLAN_UPGRADE branch builds from it.         *)

\* the answers the Twin fields are taken from
AnswerFields == {"name", "occupation", "personality", "voiceDescription"}

\* a value of the answers object: no such key, a string, or a nested object
Absent == [kind |-> "absent", text |-> ""]

Text(t) == [kind |-> "string", text |-> t]

Nested == [kind |-> "object", text |-> ""]

AnswerValues == {Absent, Text(""), Text("Ada"), Nested}

\* the parsed answers: the four fields, and whether other keys are present
AnswerMappings == [fields : [AnswerFields -> AnswerValues], others : BOOLEAN]

\* the object has no key at all
IsEmptyObject(answers) ==
    ~answers.others /\ \A f \in AnswerFields : answers.fields[f] = Absent

\* answers: Schema.Types.Mixed under the schema's default options: an empty
\* object is left out of the stored document
StoredAnswers(answers) == IF IsEmptyObject(answers) THEN Undefined ELSE Some(answers)

\* the OnboardingSession schema has no planType path: the value passed to
\* OnboardingSession.create is not stored
StoredPlanType(planType) == Undefined

\* the fields of the session document that OnboardingSession.create stores
StoredSession(answers, planType) ==
    [answers |-> StoredAnswers(answers), planType |-> StoredPlanType(planType)]

\* no session document yet
NoStoredSession == [answers |-> Undefined, planType |-> Undefined]

\* session.planType as the handler reads it
ReadPlanType(session) ==
    IF session.planType = Undefined THEN "undefined" ELSE CHOOSE p \in session.planType : TRUE

\* a value on the left of || counts when it is truthy
Truthy(v) == v.kind = "object" \/ (v.kind = "string" /\ v.text # "")

DefaultAnswer(f) ==
    IF f = "name" THEN Text("Neural Candidate")
    ELSE IF f = "occupation" THEN Text("Digital Intelligence")
    ELSE IF f = "personality" THEN Text("Analytical and adaptive.")
    ELSE Text("Clear and resonant.")

\* session.answers.f || default
BrainData(answers, f) ==
    IF Truthy(answers.fields[f]) THEN answers.fields[f] ELSE DefaultAnswer(f)

\* a String path of the Twin schema takes a string; an object cannot be cast
CastsToString(v) == v.kind = "string"

\* plan: session.planType, or the Twin schema's default
TwinPlan(session) ==
    IF session.planType = Undefined THEN "MONTHLY" ELSE ReadPlanType(session)

NoSynthTwin == [created |-> FALSE]

\* the Twin of the PLAN_UPGRADE branch, or the error that ends the handler:
\* reading a property of the missing answers, or a failed cast in Twin.create
SynthesisFails(session) ==
    \/ session.answers = Undefined
    \/ \E answers \in session.answers :
          \E f \in AnswerFields : ~CastsToString(BrainData(answers, f))

TwinFromSession(session, now) ==
    LET answers == CHOOSE a \in session.answers : TRUE IN
    [created |-> TRUE,
     fields |-> [f \in AnswerFields |-> BrainData(answers, f).text],
     plan |-> TwinPlan(session),
     planExpiresAt |-> PlanExpiry(ReadPlanType(session), now)]

\* the clock readings of the synthesis
SynthInstants == {[day |-> DaysFromCivil(2024, 1, 1), ms |-> 0],
                  [day |-> DaysFromCivil(2024, 2, 29), ms |-> 15 * 3600000]}

\* no onboarding followed
NoOnboarding == [stage |-> "none"]

\* no activateTwin request is being processed; served counts the requests taken up
IdleAdmin == [pc |-> "idle", twin |-> 0, avatar |-> Undefined, ucred |-> Undefined,
              served |-> 0]

-----------------------------------------------------------------------------
\* every collection empty but the users, no order issued, no delivery received
EmptyStores ==
    /\ billing = <<>>
    /\ sessions = [o \in OrderIds |-> NoSession]
    /\ twins = <<>>
    /\ users = [u \in Users |-> NewUser]
    /\ issued = 0
    /\ hs = [h \in Handlers |-> IdleSlot]
    /\ out = NoResponse
    /\ delivered = 0
    /\ completions = <<>>
    /\ grants = <<>>

Init ==
    /\ EmptyStores
    /\ expiry = NoCalculation
    /\ receipts = NoReceipts
    /\ clock = 0
    /\ admin = IdleAdmin
    /\ synth = NoOnboarding

-----------------------------------------------------------------------------
(* Client-facing operations that stage or create records *)

\* variant: the provider hands out the identifier of the latest order again
CreateProviderOrder_Repeats == IF issued = 0 THEN 1 ELSE issued

\* the provider's orders.create returns a fresh order id
CreateProviderOrder == issued + 1

\* variant: the outcome of the provider call is not looked at
OrderCreated_Assumed(ok) == TRUE

\* the order call returned an order: getRazorpayInstance found the credentials
\* and orders.create did not reject (otherwise the service throws)
OrderCreated(ok) == ok

\* answer of a route other than the webhook
ApiResponse(route, code, o) == [status |-> code, event |-> route, order |-> o]

\* initiateCreditPurchase: validate the package, create the order, record PENDING;
\* ok = FALSE is a failing provider call, which next(err) answers with 500
InitiateCreditPurchase(u, pkg, ok) ==
    /\ issued < MaxOrders
    /\ IF pkg \notin validPackages
       THEN /\ out' = ApiResponse("purchase-credits", 400, 0)
            /\ UNCHANGED <<billing, sessions, twins, users, issued, hs, delivered,
                           completions, grants>>
       ELSE IF ~OrderCreated(ok)
       THEN /\ out' = ApiResponse("purchase-credits", 500, 0)
            /\ UNCHANGED <<billing, sessions, twins, users, issued, hs, delivered,
                           completions, grants>>
       ELSE /\ issued' = CreateProviderOrder
            /\ billing' = Append(billing,
                   NewBilling(u, CreateProviderOrder, "PURCHASE", Some(pkg[1])))
            /\ completions' = Append(completions, 0)
            /\ grants' = Append(grants, 0)
            /\ out' = ApiResponse("purchase-credits", 200, CreateProviderOrder)
            /\ UNCHANGED <<sessions, twins, users, hs, delivered>>
    /\ UNCHANGED aside

\* transactionType that initiateOnboarding writes to its Billing record
OnboardingTransactionType == "PURCHASE"

\* initiateOnboarding: validate the plan, create the order, then the session and
\* the Billing record; inserted = FALSE is a Billing.create that rejects, which
\* next(err) answers with 500
InitiateOnboarding(u, plan, ok, inserted) ==
    /\ issued < MaxOrders
    /\ IF plan \notin PlanTypes
       THEN /\ out' = ApiResponse("initiate-onboarding", 400, 0)
            /\ UNCHANGED <<billing, sessions, twins, users, issued, hs, delivered,
                           completions, grants>>
       ELSE IF ~OrderCreated(ok)
       THEN /\ out' = ApiResponse("initiate-onboarding", 500, 0)
            /\ UNCHANGED <<billing, sessions, twins, users, issued, hs, delivered,
                           completions, grants>>
       ELSE IF ~inserted
       THEN /\ issued' = CreateProviderOrder
            /\ sessions' = [sessions EXCEPT ![CreateProviderOrder] = NewSession(u)]
            /\ out' = ApiResponse("initiate-onboarding", 500, 0)
            /\ UNCHANGED <<billing, twins, users, hs, delivered, completions, grants>>
       ELSE /\ issued' = CreateProviderOrder
            /\ sessions' = [sessions EXCEPT ![CreateProviderOrder] = NewSession(u)]
            /\ billing' = Append(billing,
                   NewBilling(u, CreateProviderOrder, OnboardingTransactionType, Undefined))
            /\ completions' = Append(completions, 0)
            /\ grants' = Append(grants, 0)
            /\ out' = ApiResponse("initiate-onboarding", 200, CreateProviderOrder)
            /\ UNCHANGED <<twins, users, hs, delivered>>
    /\ UNCHANGED aside

\* Billing Ledger recordPending(kind = PLAN_UPGRADE) with createSession: the
\* staging that the PLAN_UPGRADE branch of the webhook handler consumes
StagePlanUpgrade(u) ==
    /\ issued < MaxOrders
    /\ issued' = CreateProviderOrder
    /\ sessions' = [sessions EXCEPT ![CreateProviderOrder] = NewSession(u)]
    /\ billing' = Append(billing,
           NewBilling(u, CreateProviderOrder, "PLAN_UPGRADE", Undefined))
    /\ completions' = Append(completions, 0)
    /\ grants' = Append(grants, 0)
    /\ out' = NoResponse
    /\ UNCHANGED <<twins, users, hs, delivered>>
    /\ UNCHANGED aside

TwinIds == 1..Len(twins)

\* the twins POST /api/twins created, and the twins the webhook created for order o
ApiTwins == {t \in TwinIds : twins[t].viaOrder = 0}

WebhookTwins(o) == {t \in TwinIds : twins[t].viaOrder = o}

\* the avatarStatus values of the request bodies the modelled clients send
RequestedAvatarStatus == {Undefined, Some("ACTIVE")}

\* Twin schema: avatarStatus defaults to PENDING when the document has none
StoredAvatarStatus(avatarStatus) ==
    IF avatarStatus = Undefined THEN "PENDING" ELSE CHOOSE v \in avatarStatus : TRUE

\* createTwin (POST /api/twins): Twin.create(req.body) for the caller
CreateTwin(u, avatarStatus) ==
    /\ Cardinality(ApiTwins) < MaxApiTwins
    /\ twins' = Append(twins, [creatorUid |-> u, avatarStatus |-> StoredAvatarStatus(avatarStatus),
                               heygenAvatarId |-> Undefined, viaOrder |-> 0])
    /\ out' = ApiResponse("twins", 201, 0)
    /\ UNCHANGED <<billing, sessions, users, issued, hs, delivered, completions, grants>>
    /\ UNCHANGED aside

\* updateTwin (PUT /api/twins/:id) by user u with role role: the twin's creator
\* or an ADMIN may update; Twin.findByIdAndUpdate stores the fields of req.body
UpdateTwin(u, role, t, avatarStatus) ==
    /\ IF t \notin TwinIds
       THEN /\ out' = ApiResponse("twins", 404, 0)
            /\ UNCHANGED twins
       ELSE IF twins[t].creatorUid # u /\ role # "ADMIN"
       THEN /\ out' = ApiResponse("twins", 401, 0)
            /\ UNCHANGED twins
       ELSE /\ twins' = IF avatarStatus = Undefined THEN twins
                         ELSE [twins EXCEPT ![t].avatarStatus = StoredAvatarStatus(avatarStatus)]
            /\ out' = ApiResponse("twins", 200, 0)
    /\ UNCHANGED <<billing, sessions, users, issued, hs, delivered, completions, grants>>
    /\ UNCHANGED aside

\* the twin ids and avatar ids of the modelled activation requests
RequestedTwins == 1..(MaxApiTwins + 1)

RequestedAvatarIds == {Undefined, Some("avatar_1")}

Roles == {"CREATOR", "ADMIN"}

\* the credits an activation grants
ActivationCredits == 60

\* POST /api/admin/twins/:twinId/activate: verifyAdmin, then activateTwin up to
\* its first database call
ActivateTwin(role, t, heygenAvatarId) ==
    /\ admin.pc = "idle"
    /\ admin.served < MaxActivations
    /\ IF role # "ADMIN"
       THEN /\ out' = ApiResponse("activate", 403, 0)
            /\ UNCHANGED admin
       ELSE IF heygenAvatarId = Undefined
       THEN /\ out' = ApiResponse("activate", 400, 0)
            /\ UNCHANGED admin
       ELSE /\ admin' = [admin EXCEPT !.pc = "findTwin", !.twin = t,
                                      !.avatar = heygenAvatarId, !.served = @ + 1]
            /\ out' = NoResponse
    /\ UNCHANGED <<billing, sessions, twins, users, issued, hs, delivered, completions,
                   grants>>
    /\ UNCHANGED <<expiry, receipts, clock, synth>>

\* the activation request is answered and returns
AdminResponds(code) ==
    /\ admin' = [IdleAdmin EXCEPT !.served = admin.served]
    /\ out' = ApiResponse("activate", code, 0)

\* const twin = await Twin.findById(twinId)
ActivateFindTwin ==
    /\ admin.pc = "findTwin"
    /\ IF admin.twin \notin TwinIds THEN AdminResponds(404)
       ELSE /\ admin' = [admin EXCEPT !.pc = "saveTwin"]
            /\ out' = NoResponse
    /\ UNCHANGED <<billing, sessions, twins, users, issued, hs, delivered, completions,
                   grants>>
    /\ UNCHANGED <<expiry, receipts, clock, synth>>

\* twin.heygenAvatarId = heygenAvatarId; twin.avatarStatus = 'ACTIVE'; await twin.save()
ActivateSaveTwin ==
    /\ admin.pc = "saveTwin"
    /\ twins' = [twins EXCEPT ![admin.twin].avatarStatus = "ACTIVE",
                              ![admin.twin].heygenAvatarId = admin.avatar]
    /\ admin' = [admin EXCEPT !.pc = "findUser"]
    /\ out' = NoResponse
    /\ UNCHANGED <<billing, sessions, users, issued, hs, delivered, completions, grants>>
    /\ UNCHANGED <<expiry, receipts, clock, synth>>

\* const user = await User.findById(twin.creatorUid)
ActivateFindUser ==
    /\ admin.pc = "findUser"
    /\ admin' = [admin EXCEPT !.pc = "saveUser",
                              !.ucred = Some(users[twins[admin.twin].creatorUid].credits)]
    /\ out' = NoResponse
    /\ UNCHANGED <<billing, sessions, twins, users, issued, hs, delivered, completions,
                   grants>>
    /\ UNCHANGED <<expiry, receipts, clock, synth>>

\* user.credits = (user.credits || 0) + 60; await user.save(); res.status(200)
ActivateSaveUser ==
    /\ admin.pc = "saveUser"
    /\ users' = [users EXCEPT ![twins[admin.twin].creatorUid].credits =
                     OrZero(admin.ucred) + ActivationCredits]
    /\ AdminResponds(200)
    /\ UNCHANGED <<billing, sessions, twins, issued, hs, delivered, completions, grants>>
    /\ UNCHANGED <<expiry, receipts, clock, synth>>

\* one step of the activation being processed
ActivateStep ==
    \/ ActivateFindTwin
    \/ ActivateSaveTwin
    \/ ActivateFindUser
    \/ ActivateSaveUser

\* TTL index on expiresAt: the store deletes the session of order o.  The
\* specifications that do not advance the clock leave open how much time passes
\* between two steps, so that there the deletion may fall anywhere; Sweep is the
\* deletion under a running clock.
ExpireSession(o) ==
    /\ sessions[o].present
    /\ sessions' = [sessions EXCEPT ![o] = NoSession]
    /\ out' = NoResponse
    /\ UNCHANGED <<billing, twins, users, issued, hs, delivered, completions, grants>>
    /\ UNCHANGED aside

-----------------------------------------------------------------------------
(* handlePaymentWebhook, one action per database call *)

Idle(h) == hs[h].pc = "idle"

\* POST /api/payment/webhook arrives: headers and body are in req
Arrive(h, body, signature) ==
    /\ Idle(h)
    /\ \A g \in Handlers : g < h => ~Idle(g)
    /\ delivered < MaxDeliveries
    /\ delivered' = delivered + 1
    /\ hs' = [hs EXCEPT ![h] = [IdleSlot EXCEPT !.pc = "verify", !.event = body.event,
                                 !.entity = body.entity,
                                 !.order = body.order, !.pay = body.pay,
                                 !.sig = signature]]
    /\ out' = NoResponse
    /\ UNCHANGED <<billing, sessions, twins, users, issued, completions, grants>>
    /\ UNCHANGED aside

RequestBody(h) ==
    [event |-> hs[h].event, entity |-> hs[h].entity, order |-> hs[h].order, pay |-> hs[h].pay]

\* variant: the comparison is skipped when the header is missing
SignatureRejected_MissingHeaderPasses(signature, body) ==
    signature # NoHeader /\ signature # expectedSignature(body)

\* signature !== expectedSignature
SignatureRejected(signature, body) == signature # expectedSignature(body)

\* where a verified event goes: the captured branch, the failed branch, or ignored
Classify(event) ==
    IF event = "payment.captured" THEN "findBilling"
    ELSE IF event = "payment.failed" THEN "failBilling"
    ELSE "idle"

\* the handler goes on to its next database call
Goto(h, pc) ==
    /\ hs' = [hs EXCEPT ![h].pc = pc]
    /\ out' = NoResponse

\* the handler answers and returns
Respond(h, code) ==
    /\ hs' = [hs EXCEPT ![h] = IdleSlot]
    /\ out' = Response(h, code)

\* step 1 and the event dispatch, up to the first database call; reading
\* req.body.payload.payment.entity of a body without it raises a TypeError, which
\* next(err) answers with 500
Verify(h) ==
    /\ hs[h].pc = "verify"
    /\ IF SignatureRejected(hs[h].sig, RequestBody(h)) THEN Respond(h, 400)
       ELSE IF ~hs[h].entity THEN Respond(h, 500)
       ELSE IF Classify(hs[h].event) = "idle" THEN Respond(h, 200)
       ELSE /\ hs' = [hs EXCEPT ![h].pc = Classify(hs[h].event), ![h].sig = NoHeader]
            /\ out' = NoResponse
    /\ UNCHANGED <<billing, sessions, twins, users, issued, delivered, completions, grants>>
    /\ UNCHANGED aside

\* the branch taken for the record found: PURCHASE saves at once, PLAN_UPGRADE
\* looks the session up first, any other kind answers 200 untouched
BranchAfterFind(kind) ==
    IF kind = "PURCHASE" THEN "saveBilling"
    ELSE IF kind = "PLAN_UPGRADE" THEN "findSession"
    ELSE "idle"

\* variant: a miss is thrown to the error handler
BillingNotFound_Throws(h) == Respond(h, 500)

\* if (!billingRecord): res.status(404) and return
BillingNotFound(h) == Respond(h, 404)

\* const billingRecord = await Billing.findOne({razorpayOrderId, status: 'PENDING'})
FindBilling(h) ==
    /\ hs[h].pc = "findBilling"
    /\ LET b == FindPendingBilling(hs[h].order) IN
       IF b = 0 THEN BillingNotFound(h)
       ELSE IF BranchAfterFind(billing[b].kind) = "idle" THEN Respond(h, 200)
       ELSE /\ hs' = [hs EXCEPT ![h].pc = BranchAfterFind(billing[b].kind), ![h].bid = b]
            /\ out' = NoResponse
    /\ UNCHANGED <<billing, sessions, twins, users, issued, delivered, completions, grants>>
    /\ UNCHANGED aside

\* OnboardingSession.findOne({razorpayOrderId, status: 'PENDING'}) finds one
SessionPending(o) == sessions[o].present /\ sessions[o].status = "PENDING"

\* const session = await OnboardingSession.findOne(...)
FindSession(h) ==
    /\ hs[h].pc = "findSession"
    /\ hs' = [hs EXCEPT ![h].pc = "saveBilling", ![h].sess = SessionPending(hs[h].order)]
    /\ out' = NoResponse
    /\ UNCHANGED <<billing, sessions, twins, users, issued, delivered, completions, grants>>
    /\ UNCHANGED aside

\* billingRecord.status = 'COMPLETED'; billingRecord.razorpayPaymentId = paymentId
CompletedBilling(rec, pay) == [rec EXCEPT !.status = "COMPLETED", !.paymentId = Some(pay)]

\* variant: the Twin is created whether or not a session was found
AfterSaveBilling_AlwaysCreates(kind, sess) ==
    IF kind = "PURCHASE" THEN "findUser" ELSE "createTwin"

\* what follows await billingRecord.save() in the three places it is called
AfterSaveBilling(kind, sess) ==
    IF kind = "PURCHASE" THEN "findUser"
    ELSE IF sess THEN "createTwin"
    ELSE "idle"

\* await billingRecord.save(): writes the modified paths of the record by _id
SaveBilling(h) ==
    /\ hs[h].pc = "saveBilling"
    /\ LET b == hs[h].bid IN
       /\ billing' = [billing EXCEPT ![b] = CompletedBilling(billing[b], hs[h].pay)]
       /\ completions' = [completions EXCEPT ![b] = @ + 1]
       /\ IF AfterSaveBilling(billing[b].kind, hs[h].sess) = "idle"
          THEN Respond(h, 200)
          ELSE Goto(h, AfterSaveBilling(billing[b].kind, hs[h].sess))
    /\ UNCHANGED <<sessions, twins, users, issued, delivered, grants>>
    /\ UNCHANGED aside

\* const user = await User.findById(billingRecord.userId)
FindUser(h) ==
    /\ hs[h].pc = "findUser"
    /\ hs' = [hs EXCEPT ![h].pc = "saveUser",
                        ![h].ucred = Some(users[billing[hs[h].bid].userId].credits)]
    /\ out' = NoResponse
    /\ UNCHANGED <<billing, sessions, twins, users, issued, delivered, completions, grants>>
    /\ UNCHANGED aside

\* variant: the balance is set to the purchased count
IncreasedCredits_Overwrites(ucred, credits) == OrZero(credits)

\* user.credits = (user.credits || 0) + (billingRecord.credits || 0)
IncreasedCredits(ucred, credits) == OrZero(ucred) + OrZero(credits)

\* await user.save(), then res.status(200)
SaveUser(h) ==
    /\ hs[h].pc = "saveUser"
    /\ LET b == hs[h].bid IN
       /\ users' = [users EXCEPT ![billing[b].userId].credits =
                        IncreasedCredits(hs[h].ucred, billing[b].credits)]
       /\ grants' = [grants EXCEPT ![b] = @ + 1]
    /\ Respond(h, 200)
    /\ UNCHANGED <<billing, sessions, twins, issued, delivered, completions>>
    /\ UNCHANGED aside

\* the Twin the PLAN_UPGRADE branch creates for the session's user
SynthesizedTwin(u, o) == [creatorUid |-> u, avatarStatus |-> "PENDING",
                          heygenAvatarId |-> Undefined, viaOrder |-> o]

\* const twin = await Twin.create({creatorUid: session.userId, ...})
CreateTwinFromSession(h) ==
    /\ hs[h].pc = "createTwin"
    /\ twins' = Append(twins, SynthesizedTwin(billing[hs[h].bid].userId, hs[h].order))
    /\ Goto(h, "updateUser")
    /\ UNCHANGED <<billing, sessions, users, issued, delivered, completions, grants>>
    /\ UNCHANGED aside

\* await User.findByIdAndUpdate(session.userId, {onboardingStatus: 'COMPLETED', ...})
UpdateUser(h) ==
    /\ hs[h].pc = "updateUser"
    /\ users' = [users EXCEPT ![billing[hs[h].bid].userId].onboardingStatus = "COMPLETED"]
    /\ Goto(h, "saveSession")
    /\ UNCHANGED <<billing, sessions, twins, issued, delivered, completions, grants>>
    /\ UNCHANGED aside

\* session.status = 'PAID'; await session.save(): with no document left to update
\* save() raises DocumentNotFoundError, which next(err) answers with 500
SaveSession(h) ==
    /\ hs[h].pc = "saveSession"
    /\ LET o == hs[h].order IN
       IF sessions[o].present
       THEN /\ sessions' = [sessions EXCEPT ![o].status = "PAID",
                                            ![o].paymentId = Some(hs[h].pay)]
            /\ Respond(h, 200)
       ELSE /\ UNCHANGED sessions
            /\ Respond(h, 500)
    /\ UNCHANGED <<billing, twins, users, issued, delivered, completions, grants>>
    /\ UNCHANGED aside

\* the record Billing.findOneAndUpdate({razorpayOrderId}, ...) updates, or 0
FailedBillingTarget(o) == FindBillingByOrder(o)

\* variant: the update document is empty
FailedBilling_Keeps(rec) == rec

\* the update {status: 'FAILED'} applied to a record
FailedBilling(rec) == [rec EXCEPT !.status = "FAILED"]

\* await Billing.findOneAndUpdate({razorpayOrderId}, {status: 'FAILED'})
FailBilling(h) ==
    /\ hs[h].pc = "failBilling"
    /\ LET b == FailedBillingTarget(hs[h].order) IN
       IF b = 0 THEN UNCHANGED billing
       ELSE billing' = [billing EXCEPT ![b] = FailedBilling(billing[b])]
    /\ Goto(h, "failSession")
    /\ UNCHANGED <<sessions, twins, users, issued, delivered, completions, grants>>
    /\ UNCHANGED aside

\* await OnboardingSession.findOneAndUpdate({razorpayOrderId}, {status: 'FAILED'})
FailSession(h) ==
    /\ hs[h].pc = "failSession"
    /\ LET o == hs[h].order IN
       IF sessions[o].present
       THEN sessions' = [sessions EXCEPT ![o].status = "FAILED"]
       ELSE UNCHANGED sessions
    /\ Respond(h, 200)
    /\ UNCHANGED <<billing, twins, users, issued, delivered, completions, grants>>
    /\ UNCHANGED aside

\* the calls awaited after the PLAN_UPGRADE record was saved as COMPLETED
AfterCompletion == {"createTwin", "updateUser", "saveSession"}

\* errorHandler: 400 for a ValidationError or a duplicate key, 500 otherwise
ErrorStatuses == {400, 500}

\* variant: the error path puts the record back to PENDING
BillingAfterError_RollsBack(h) == [billing EXCEPT ![hs[h].bid].status = "PENDING"]

\* catch (err) { next(err) }: the error path writes nothing
BillingAfterError(h) == billing

\* an awaited call after the completion rejects: the catch block hands the error
\* to errorHandler, which answers with its status code
Throw(h, code) ==
    /\ hs[h].pc \in AfterCompletion
    /\ billing' = BillingAfterError(h)
    /\ Respond(h, code)
    /\ UNCHANGED <<sessions, twins, users, issued, delivered, completions, grants>>
    /\ UNCHANGED aside

\* the calls awaited after a PURCHASE record was saved as COMPLETED
AfterPurchaseCompletion == {"findUser", "saveUser"}

\* User.findById or user.save() rejects: the catch block hands the error to
\* errorHandler; the balance is not written
ThrowInPurchase(h, code) ==
    /\ hs[h].pc \in AfterPurchaseCompletion
    /\ Respond(h, code)
    /\ UNCHANGED <<billing, sessions, twins, users, issued, delivered, completions, grants>>
    /\ UNCHANGED aside

\* one step of the delivery in slot h
HandlerStep(h) ==
    \/ Verify(h)
    \/ FindBilling(h)
    \/ FindSession(h)
    \/ SaveBilling(h)
    \/ FindUser(h)
    \/ SaveUser(h)
    \/ CreateTwinFromSession(h)
    \/ UpdateUser(h)
    \/ SaveSession(h)
    \/ FailBilling(h)
    \/ FailSession(h)

-----------------------------------------------------------------------------
(* Specifications *)

\* requests that stage an order
Staging ==
    \/ \E u \in Buyers, pkg \in RequestedPackages, ok \in BOOLEAN : InitiateCreditPurchase(u, pkg, ok)
    \/ \E u \in Buyers, plan \in RequestedPlans, ok \in BOOLEAN :
           InitiateOnboarding(u, plan, ok, TRUE)
    \/ \E u \in Buyers : StagePlanUpgrade(u)

\* the events the provider sends, with its signature
Signed(body) == {expectedSignature(body)}

\* deliveries are handled concurrently: a new one may arrive while others run
Next ==
    \/ Staging
    \/ \E o \in OrderIds : ExpireSession(o)
    \/ \E h \in Handlers : \E body \in Bodies : \E signature \in Signed(body) :
           Arrive(h, body, signature)
    \/ \E h \in Handlers : HandlerStep(h)

Spec == Init /\ [][Next]_vars

\* no delivery is being processed
Quiet == \A h \in Handlers : Idle(h)

\* one delivery after the other has been answered, from any sender
NextSeq ==
    \/ Staging
    \/ \E o \in OrderIds : ExpireSession(o)
    \/ \E h \in Handlers : \E body \in Bodies : \E signature \in Signatures(body) :
           Quiet /\ Arrive(h, body, signature)
    \/ \E h \in Handlers : HandlerStep(h)

SpecSeq == Init /\ [][NextSeq]_vars

\* the whole API: the twin routes beside the payment pipeline
NextApi ==
    \/ Staging
    \/ \E o \in OrderIds : ExpireSession(o)
    \/ \E h \in Handlers : \E body \in Bodies : \E signature \in Signed(body) :
           Quiet /\ Arrive(h, body, signature)
    \/ \E h \in Handlers : HandlerStep(h)
    \/ \E u \in Users, avatarStatus \in RequestedAvatarStatus : CreateTwin(u, avatarStatus)

SpecApi == Init /\ [][NextApi]_vars

\* one delivery at a time, where a database call after the completion, or the
\* Billing insert of initiateOnboarding, may fail
NextFail ==
    \/ Staging
    \/ \E o \in OrderIds : ExpireSession(o)
    \/ \E h \in Handlers : \E body \in Bodies : \E signature \in Signed(body) :
           Quiet /\ Arrive(h, body, signature)
    \/ \E h \in Handlers : HandlerStep(h)
    \/ \E h \in Handlers : \E code \in ErrorStatuses : Throw(h, code)
    \/ \E h \in Handlers : \E code \in ErrorStatuses : ThrowInPurchase(h, code)
    \/ \E u \in Buyers, plan \in RequestedPlans : InitiateOnboarding(u, plan, TRUE, FALSE)

SpecFail == Init /\ [][NextFail]_vars

\* const now = new Date(); planExpiresAt is computed from session.planType
ComputePlanExpiry ==
    /\ expiry.planExpiresAt = NoInstant
    /\ expiry' = [expiry EXCEPT !.planExpiresAt = PlanExpiry(expiry.plan, expiry.now)]
    /\ UNCHANGED <<pipeline, receipts, clock, admin, synth>>

\* the expiry calculation alone, for every plan type and clock reading
InitExpiry ==
    /\ EmptyStores
    /\ expiry \in [plan : PlanTypes, now : Instants, planExpiresAt : {NoInstant}]
    /\ receipts = NoReceipts
    /\ clock = 0
    /\ admin = IdleAdmin
    /\ synth = NoOnboarding

NextExpiry == ComputePlanExpiry

SpecExpiry == InitExpiry /\ [][NextExpiry]_vars

\* two order creations of one purpose: each builds its receipt
IssueReceipts ==
    /\ receipts.firstReceipt = NoReceipt
    /\ receipts' = [receipts EXCEPT
           !.firstReceipt = Receipt(receipts.purpose, receipts.first.userId, receipts.first.at),
           !.secondReceipt = Receipt(receipts.purpose, receipts.second.userId,
                                     receipts.second.at)]
    /\ UNCHANGED <<pipeline, expiry, clock, admin, synth>>

\* the receipt generation alone, for every pair of creations
InitReceipts ==
    /\ EmptyStores
    /\ expiry = NoCalculation
    /\ receipts \in [purpose : Purposes, first : OrderRequests, second : OrderRequests,
                      firstReceipt : {NoReceipt}, secondReceipt : {NoReceipt}]
    /\ clock = 0
    /\ admin = IdleAdmin
    /\ synth = NoOnboarding

NextReceipts == IssueReceipts

SpecReceipts == InitReceipts /\ [][NextReceipts]_vars

\* time passes, half an hour at a time
Delays == {SessionTtl}

Tick(d) ==
    /\ clock + d <= MaxClock
    /\ clock' = clock + d
    /\ out' = NoResponse
    /\ UNCHANGED <<billing, sessions, twins, users, issued, hs, delivered, completions,
                   grants>>
    /\ UNCHANGED <<expiry, receipts, admin, synth>>

\* variant: only a session still PENDING counts as due
Due_OnlyPending(o) ==
    sessions[o].present /\ sessions[o].status = "PENDING" /\ sessions[o].expiresAt <= clock

\* the expiry of the session of order o has passed
Due(o) == sessions[o].present /\ sessions[o].expiresAt <= clock

\* the store's periodic TTL pass finds the session of order o due
Sweep(o) == Due(o) /\ ExpireSession(o)

\* a session can be created while the clock can still reach its expiry
ExpiryInRange == clock + SessionTtl <= MaxClock

\* the captured and failed events of the orders whose session is stored
OrderEvents ==
    {body \in Bodies : /\ body.event \in {"payment.captured", "payment.failed"}
                       /\ body.order \in OrderIds
                       /\ sessions[body.order].present}

\* the steps a delivery takes for the records initiateOnboarding writes
OnboardingOrderStep(h) ==
    \/ Verify(h)
    \/ FindBilling(h)
    \/ SaveBilling(h)
    \/ FindUser(h)
    \/ SaveUser(h)
    \/ FailBilling(h)
    \/ FailSession(h)

\* the sessions of initiateOnboarding under a running clock, one delivery at a time
NextTtl ==
    \/ \E u \in Buyers, plan \in PlanTypes \cap RequestedPlans :
           ExpiryInRange /\ InitiateOnboarding(u, plan, TRUE, TRUE)
    \/ \E h \in Handlers : \E body \in OrderEvents : \E signature \in Signed(body) :
           Quiet /\ Arrive(h, body, signature)
    \/ \E h \in Handlers : OnboardingOrderStep(h)
    \/ \E d \in Delays : Tick(d)
    \/ \E o \in OrderIds : Sweep(o)

\* the clock advances and the store's TTL pass runs again and again
SpecTtl ==
    /\ Init
    /\ [][NextTtl]_vars
    /\ WF_vars(\E d \in Delays : Tick(d))
    /\ \A o \in OrderIds : WF_vars(Sweep(o))

\* the twin routes, the admin activation and the payment pipeline side by side:
\* one webhook delivery at a time, the activation concurrent with it
NextAdmin ==
    \/ Staging
    \/ \E h \in Handlers : \E body \in Bodies : \E signature \in Signed(body) :
           Quiet /\ Arrive(h, body, signature)
    \/ \E h \in Handlers : HandlerStep(h)
    \/ \E u \in Buyers, avatarStatus \in RequestedAvatarStatus : CreateTwin(u, avatarStatus)
    \/ \E u \in Users, role \in Roles, t \in RequestedTwins,
          avatarStatus \in RequestedAvatarStatus : UpdateTwin(u, role, t, avatarStatus)
    \/ \E role \in Roles, t \in RequestedTwins, heygenAvatarId \in RequestedAvatarIds :
           ActivateTwin(role, t, heygenAvatarId)
    \/ ActivateStep

SpecAdmin == Init /\ [][NextAdmin]_vars

\* initiateOnboarding: OnboardingSession.create({answers: parsedAnswers, planType, ...})
StoreSession ==
    /\ synth.stage = "submitted"
    /\ synth' = [synth EXCEPT !.stage = "stored",
                              !.session = StoredSession(synth.answers, synth.planType)]
    /\ UNCHANGED <<pipeline, expiry, receipts, clock, admin>>

\* the PLAN_UPGRADE branch with the session found: expiry, brain data, Twin.create
SynthesizeTwin ==
    /\ synth.stage = "stored"
    /\ synth' = IF SynthesisFails(synth.session)
                THEN [synth EXCEPT !.stage = "failed"]
                ELSE [synth EXCEPT !.stage = "created",
                                   !.twin = TwinFromSession(synth.session, synth.now)]
    /\ UNCHANGED <<pipeline, expiry, receipts, clock, admin>>

\* every form: answers, plan type and the clock reading of the webhook
InitSynth ==
    /\ EmptyStores
    /\ expiry = NoCalculation
    /\ receipts = NoReceipts
    /\ clock = 0
    /\ admin = IdleAdmin
    /\ synth \in [stage : {"submitted"}, answers : AnswerMappings, planType : PlanTypes,
                   now : SynthInstants, session : {NoStoredSession},
                   twin : {NoSynthTwin}]

NextSynth == StoreSession \/ SynthesizeTwin

SpecSynth == InitSynth /\ [][NextSynth]_vars

-----------------------------------------------------------------------------
(* Properties *)

\* the delivery in slot h takes this step
Steps(h) == hs'[h] # hs[h]

\* some record with this order id is still PENDING
HasPending(o) == \E b \in BillingIds : billing[b].orderId = o /\ billing[b].status = "PENDING"

\* C1: a webhook request whose x-razorpay-signature differs from the hex
\* HMAC-SHA256 of the serialized body under the webhook secret is answered 400
\* and returns at once; the step creates or changes no Billing, OnboardingSession,
\* Twin or User record, whatever event and order id the body carries.
C1_BadSignatureRejected ==
    [][\A h \in Handlers :
          (/\ hs[h].pc = "verify"
           /\ hs[h].sig # HmacSha256(WebhookSecret, Serialize(RequestBody(h)))
           /\ Steps(h))
          => (/\ out' = Response(h, 400)
              /\ hs'[h] = IdleSlot
              /\ UNCHANGED db)]_vars

\* a captured event for an order with a PENDING record was just refused with 400
C1_Witness ==
    /\ out.status = 400
    /\ out.event = "payment.captured"
    /\ HasPending(out.order)
    /\ Quiet

\* C2: a Billing record's status changes only from PENDING: once COMPLETED or
\* FAILED it never changes again.
C2_StatusTerminal ==
    [][\A b \in BillingIds :
          billing[b].status # "PENDING" => billing'[b].status = billing[b].status]_vars

\* credits granted to user u for the records 1..n, by the history of user.save()
RECURSIVE GrantedCredits(_, _)
GrantedCredits(u, n) ==
    IF n = 0 THEN 0
    ELSE GrantedCredits(u, n - 1)
         + (IF billing[n].userId = u THEN grants[n] * OrZero(billing[n].credits) ELSE 0)

\* C3: with one delivery processed after the other, a PURCHASE record is saved as
\* COMPLETED at most once and its credits are added at most once, exactly once
\* when it was completed and no delivery is running; every balance is the initial
\* balance plus the credit counts added, so a repeated delivery adds nothing.
C3_DuplicateCaptureCreditsOnce ==
    /\ \A b \in BillingIds :
          billing[b].kind = "PURCHASE" =>
              /\ completions[b] <= 1
              /\ grants[b] <= 1
              /\ (completions[b] = 1 /\ Quiet) => grants[b] = 1
    /\ \A u \in Users :
          users[u].credits = InitialCredits + GrantedCredits(u, Len(billing))

\* the second delivery of a captured event for a completed credit purchase was
\* just answered not-found, the balance holding the credits once
C3_Witness ==
    /\ out.status = 404
    /\ out.event = "payment.captured"
    /\ \E b \in BillingIds :
          /\ billing[b].orderId = out.order
          /\ billing[b].kind = "PURCHASE"
          /\ billing[b].credits = Some(20)
          /\ billing[b].status = "COMPLETED"
          /\ completions[b] = 1
          /\ grants[b] = 1
          /\ users[billing[b].userId].credits = InitialCredits + 20

\* C4: for every interleaving of concurrently processed captured deliveries for
\* one PURCHASE order, at most one of them adds the credit count to the balance.
C4_ConcurrentCaptureCreditsOnce ==
    \A b \in BillingIds : billing[b].kind = "PURCHASE" => grants[b] <= 1

\* C5: once a captured event for an onboarding order has been answered 200 while
\* the order's session is present and was PENDING, the session's user owns a
\* Twin, the session is PAID, the order's Billing record is COMPLETED and the
\* user's onboarding status is COMPLETED.
C5_OnboardingPaymentCreatesTwin ==
    (/\ out.status = 200
     /\ out.event = "payment.captured"
     /\ sessions[out.order].present
     /\ sessions[out.order].status # "FAILED")
    => (/\ \E t \in TwinIds : twins[t].creatorUid = sessions[out.order].userId
        /\ sessions[out.order].status = "PAID"
        /\ \E b \in BillingIds :
              billing[b].orderId = out.order /\ billing[b].status = "COMPLETED"
        /\ users[sessions[out.order].userId].onboardingStatus = "COMPLETED")

\* C6: once a captured event has been processed for an order that has a Billing
\* record, that record is COMPLETED, whatever was processed for the order before.
C6_CapturedMeansCompleted ==
    (/\ out.event = "payment.captured"
     /\ out.status # 400
     /\ FindBillingByOrder(out.order) # 0)
    => billing[FindBillingByOrder(out.order)].status = "COMPLETED"

C8_TwinHasCompletedUpgrade ==
    \A t \in TwinIds : \E b \in BillingIds :
        /\ billing[b].userId = twins[t].creatorUid
        /\ billing[b].kind = "PLAN_UPGRADE"
        /\ billing[b].status = "COMPLETED"

\* C9: a captured event whose order id matches no PENDING Billing record is
\* answered 404 by the lookup step, not passed to the error handler, and the
\* step leaves every Billing, OnboardingSession, Twin and User record unchanged.
C9_NoPendingRecordNotFound ==
    [][\A h \in Handlers :
          (/\ hs[h].pc = "findBilling"
           /\ ~HasPending(hs[h].order)
           /\ Steps(h))
          => (/\ out' = Response(h, 404)
              /\ hs'[h] = IdleSlot
              /\ UNCHANGED db)]_vars

\* a captured event for an order id that no record carries was just answered 404
C9_Witness ==
    /\ out.status = 404
    /\ out.event = "payment.captured"
    /\ FindBillingByOrder(out.order) = 0
    /\ billing # <<>>

\* the record the delivery in slot h holds is a credit purchase
PurchaseInHand(h) == hs[h].bid # 0 /\ billing[hs[h].bid].kind = "PURCHASE"

\* C10: processing a captured event for a PENDING PURCHASE record: the lookup
\* takes that record, the save sets it COMPLETED with the event's payment id, the
\* user save adds exactly the record's credit count (0 when it has none) to the
\* owner's balance and answers 200; no step creates a Twin or changes a session
\* or another user.
C10_PurchaseEffect ==
    [][\A h \in Handlers : Steps(h) =>
          /\ hs[h].pc = "findBilling" =>
                \A b \in BillingIds :
                    (/\ billing[b].orderId = hs[h].order
                     /\ billing[b].status = "PENDING"
                     /\ billing[b].kind = "PURCHASE")
                    => (hs'[h].pc = "saveBilling" /\ hs'[h].bid = b /\ UNCHANGED db)
          /\ (hs[h].pc = "saveBilling" /\ PurchaseInHand(h)) =>
                /\ billing[hs[h].bid].status = "PENDING"
                /\ billing' = [billing EXCEPT ![hs[h].bid].status = "COMPLETED",
                                              ![hs[h].bid].paymentId = Some(hs[h].pay)]
                /\ hs'[h].pc = "findUser"
                /\ UNCHANGED <<sessions, twins, users>>
          /\ hs[h].pc = "findUser" => (hs'[h].pc = "saveUser" /\ UNCHANGED db)
          /\ hs[h].pc = "saveUser" =>
                /\ users' = [users EXCEPT ![billing[hs[h].bid].userId].credits =
                                 @ + OrZero(billing[hs[h].bid].credits)]
                /\ out' = Response(h, 200)
                /\ UNCHANGED <<billing, sessions, twins>>]_vars

\* a second credit purchase of a user was just completed: the balance holds both
C10_Witness ==
    /\ out.status = 200
    /\ out.event = "payment.captured"
    /\ twins = <<>>
    /\ \E b \in BillingIds :
          /\ billing[b].orderId = out.order
          /\ billing[b].kind = "PURCHASE"
          /\ billing[b].credits = Some(20)
          /\ billing[b].status = "COMPLETED"
          /\ billing[b].paymentId = Some("pay_A")
          /\ users[billing[b].userId].credits = InitialCredits + 40

\* the record the delivery in slot h holds is a plan upgrade
UpgradeInHand(h) == hs[h].bid # 0 /\ billing[hs[h].bid].kind = "PLAN_UPGRADE"

C13_FailedEventEffect ==
    [][/\ \A h \in Handlers : Steps(h) =>
             /\ hs[h].pc = "failBilling" =>
                   /\ \A b \in BillingIds :
                         (billing[b].orderId = hs[h].order /\ billing[b].status = "PENDING")
                         => billing'[b].status = "FAILED"
                   /\ UNCHANGED <<twins, users>>
             /\ hs[h].pc = "failSession" =>
                   /\ (/\ sessions[hs[h].order].present
                       /\ sessions[hs[h].order].status = "PENDING")
                      => sessions'[hs[h].order].status = "FAILED"
                   /\ UNCHANGED <<billing, twins, users>>
       /\ \A b \in BillingIds :
             (billing[b].status = "FAILED" /\ completions[b] = 0)
             => /\ billing'[b].status = "FAILED"
                /\ \A t \in 1..Len(twins') : twins'[t].viaOrder # billing[b].orderId]_vars

\* after a failed event had set the record and the session of a plan-upgrade
\* order FAILED, a captured event for the order was just answered 404: no Twin
C13_Witness ==
    /\ out.status = 404
    /\ out.event = "payment.captured"
    /\ sessions[out.order].present
    /\ sessions[out.order].status = "FAILED"
    /\ WebhookTwins(out.order) = {}
    /\ \E b \in BillingIds :
          /\ billing[b].orderId = out.order
          /\ billing[b].kind = "PLAN_UPGRADE"
          /\ billing[b].status = "FAILED"
          /\ completions[b] = 0
          /\ users[billing[b].userId] = NewUser

C15_OneBillingPerOrder ==
    \A b1, b2 \in BillingIds :
        billing[b1].orderId = billing[b2].orderId => b1 = b2

\* a credit purchase and an onboarding have each staged a record, under
\* different order identifiers
C15_Witness ==
    /\ Len(billing) = 2
    /\ billing[1].orderId # billing[2].orderId
    /\ billing[1].credits # Undefined
    /\ sessions[billing[2].orderId].present
    /\ billing[2].kind = OnboardingTransactionType

Computed == expiry.planExpiresAt # NoInstant

\* the calendar date of an instant
DateOf(t) == CivilFromDays(t.day)

IsLeapYear(y) == (y % 4 = 0 /\ y % 100 # 0) \/ y % 400 = 0

\* the clock reading 2024-01-01, at any time of day
OnNewYear2024 == DateOf(expiry.now) = <<2024, 1, 1>>

C19_OtherEventsIgnored ==
    [][\A h \in Handlers :
          (/\ Steps(h)
           /\ hs[h].pc = "verify"
           /\ hs[h].sig = HmacSha256(WebhookSecret, Serialize(RequestBody(h)))
           /\ hs[h].event \notin {"payment.captured", "payment.failed"})
          => (/\ out' = Response(h, 200)
              /\ hs'[h] = IdleSlot
              /\ UNCHANGED db)]_vars

\* C20: a credit purchase request whose (credits, amount) pair is none of
\* (20,15), (75,45), (200,99), and an onboarding request whose plan type is none
\* of MONTHLY, YEARLY, AFTERLIFE, is answered 400 with no provider order created
\* and no OnboardingSession or Billing record created or changed.
C20_InvalidRequestRejected ==
    [][/\ \A u \in Buyers, pkg \in RequestedPackages, ok \in BOOLEAN :
             (/\ pkg \notin {<<20, 15>>, <<75, 45>>, <<200, 99>>}
              /\ InitiateCreditPurchase(u, pkg, ok))
             => (/\ out'.status = 400
                 /\ out'.event = "purchase-credits"
                 /\ UNCHANGED <<issued, billing, sessions>>)
       /\ \A u \in Buyers, plan \in RequestedPlans, ok \in BOOLEAN :
             (/\ plan \notin {"MONTHLY", "YEARLY", "AFTERLIFE"}
              /\ InitiateOnboarding(u, plan, ok, TRUE))
             => (/\ out'.status = 400
                 /\ out'.event = "initiate-onboarding"
                 /\ UNCHANGED <<issued, billing, sessions>>)]_vars

\* with one order already staged, an onboarding request with an unknown plan
\* type was just answered 400: still one order, one record
C20_Witness ==
    /\ out.status = 400
    /\ out.event = "initiate-onboarding"
    /\ issued = 1
    /\ Len(billing) = 1
    /\ Quiet

\* C21: when the provider order cannot be created (credentials missing or the
\* call rejected), a credit purchase request with a valid package and an
\* onboarding request with a valid plan type are answered 500 in that one step,
\* with no provider order counted and no OnboardingSession or Billing record
\* created or changed.
C21_ProviderFailureCreatesNothing ==
    [][/\ \A u \in Buyers, pkg \in RequestedPackages :
             (/\ pkg \in {<<20, 15>>, <<75, 45>>, <<200, 99>>}
              /\ InitiateCreditPurchase(u, pkg, FALSE))
             => (/\ out' = ApiResponse("purchase-credits", 500, 0)
                 /\ UNCHANGED <<issued, billing, sessions>>)
       /\ \A u \in Buyers, plan \in RequestedPlans :
             (/\ plan \in {"MONTHLY", "YEARLY", "AFTERLIFE"}
              /\ InitiateOnboarding(u, plan, FALSE, TRUE))
             => (/\ out' = ApiResponse("initiate-onboarding", 500, 0)
                 /\ UNCHANGED <<issued, billing, sessions>>)]_vars

\* with one onboarding staged, a second onboarding request met a failing
\* provider and was just answered 500: still one order, one session, one record
C21_Witness ==
    /\ out = ApiResponse("initiate-onboarding", 500, 0)
    /\ issued = 1
    /\ Len(billing) = 1
    /\ sessions[1].present
    /\ \A o \in OrderIds : o # 1 => ~sessions[o].present

\* C22: two order creations of one purpose that differ in the user id or in the
\* creation timestamp get different receipts.
C22_ReceiptsNeverCollide ==
    (/\ receipts.firstReceipt # NoReceipt
     /\ receipts.first # receipts.second)
    => receipts.firstReceipt # receipts.secondReceipt

\* C23: a session is created with an expiry 30 minutes after the clock reading
\* of its creation, keeps that expiry while it is stored, and is eventually
\* deleted, whatever its status.
C23_SessionsExpire ==
    /\ [][\A o \in OrderIds :
             /\ (~sessions[o].present /\ sessions'[o].present)
                    => sessions'[o].expiresAt = clock + 30
             /\ (sessions[o].present /\ sessions'[o].present)
                    => sessions'[o].expiresAt = sessions[o].expiresAt]_vars
    /\ \A o \in OrderIds : sessions[o].present ~> ~sessions[o].present

\* the session of a failed payment is gone after its expiry, while a later
\* session, not yet due, is still stored
C23_Witness ==
    /\ clock = 30
    /\ ~sessions[1].present
    /\ \E i \in BillingIds : billing[i].orderId = 1 /\ billing[i].status = "FAILED"
    /\ sessions[2].present
    /\ sessions[2].expiresAt = 60

\* C24: a balance is a non-negative integer, and every step that changes it
\* adds the credit count of a PURCHASE record of that user or the 60 credits
\* of an activation; no step lowers it.
C24_CreditsOnlyGrow ==
    [][\A u \in Users :
          /\ users'[u].credits \in Nat
          /\ users'[u].credits # users[u].credits
                => \/ \E b \in BillingIds :
                         /\ billing[b].userId = u
                         /\ billing[b].kind = "PURCHASE"
                         /\ users'[u].credits = users[u].credits + OrZero(billing[b].credits)
                   \/ users'[u].credits = users[u].credits + 60]_vars

\* the twins of user u an activation has saved
ActivatedTwins(u) ==
    {t \in TwinIds : twins[t].creatorUid = u /\ twins[t].heygenAvatarId # Undefined}

\* C27: when the delivery completing a PURCHASE record and the activation of a
\* twin of the same user have both returned, the balance is the initial
\* balance plus the credit counts granted plus 60 for the activation.
C27_PurchaseAndActivationAddUp ==
    (Quiet /\ admin.pc = "idle")
    => \A u \in Users :
          users[u].credits = InitialCredits + GrantedCredits(u, Len(billing))
                                 + 60 * Cardinality(ActivatedTwins(u))

\* C30: a step that makes a Twin ACTIVE is the twin save of an admin activation
\* carrying an avatar id; an activation request without an avatar id, or for an
\* unknown twin, changes no Twin and no balance.
C30_ActiveOnlyByActivation ==
    [][/\ \A t \in 1..Len(twins') :
             (/\ twins'[t].avatarStatus = "ACTIVE"
              /\ (t \in TwinIds => twins[t].avatarStatus # "ACTIVE"))
             => (/\ admin.pc = "saveTwin"
                 /\ admin.twin = t
                 /\ admin.avatar # Undefined
                 /\ admin'.pc = "findUser")
       /\ \A role \in Roles, t \in RequestedTwins :
             ActivateTwin(role, t, Undefined) => UNCHANGED <<twins, users, admin>>
       /\ (admin.pc = "findTwin" /\ admin.twin \notin TwinIds /\ admin' # admin)
             => UNCHANGED <<twins, users>>]_vars

C26_PlanTypePreserved ==
    synth.stage = "created"
    => /\ synth.twin.plan = synth.planType
       /\ synth.planType = "MONTHLY" => synth.twin.planExpiresAt = AddDays(synth.now, 30)
       /\ synth.planType = "YEARLY" => synth.twin.planExpiresAt = AddDays(synth.now, 365)

\* C28: whenever a PURCHASE record is COMPLETED and no delivery is being
\* processed, its credit count has been added to the owner's balance, also after
\* a delivery in which the user lookup or save failed and a redelivery.
C28_CompletedPurchaseIsCredited ==
    Quiet =>
        /\ \A b \in BillingIds :
              (billing[b].kind = "PURCHASE" /\ billing[b].status = "COMPLETED")
              => grants[b] >= 1
        /\ \A u \in Users :
              users[u].credits >= InitialCredits + GrantedCredits(u, Len(billing))

\* C29: an initiateOnboarding request answered 200 leaves a PENDING session
\* and a PENDING Billing record with the order id it returns; one answered with
\* an error leaves the sessions and the Billing records as they were.
C29_OnboardingAllOrNothing ==
    [][\A u \in Buyers, plan \in RequestedPlans, ok \in BOOLEAN, inserted \in BOOLEAN :
          InitiateOnboarding(u, plan, ok, inserted)
          => IF out'.status = 200
             THEN /\ sessions'[out'.order].present
                  /\ sessions'[out'.order].status = "PENDING"
                  /\ \E b \in 1..Len(billing') :
                        /\ billing'[b].orderId = out'.order
                        /\ billing'[b].status = "PENDING"
             ELSE UNCHANGED <<sessions, billing>>]_vars

====
